---- MODULE Spec2Model ----
(***************************************************************************)
(* Model of the AWB Hub address validator                                  *)
(* (services/address_service.py, validate_address_for_order and its        *)
(* helpers) and of the callers in routes/.                                 *)
(*                                                                         *)
(* Text is modelled as TLA+ strings, character by character.  A character  *)
(* is a string of length 1.  The parser accepts ASCII only, so the few     *)
(* non-ASCII code points the program's tables and regular expressions      *)
(* mention are written with stand-in characters:                           *)
(*     "@" = a-breve   "^" = a-circumflex   "!" = i-circumflex             *)
(*     "$" = s-comma   "#" = t-comma        "~" = en dash                  *)
(* The only whitespace character of the model's alphabet is the space.     *)
(*                                                                         *)
(* Python floats are modelled as exact rationals <<numerator, denominator>>*)
(* and compared by cross-multiplication.                                   *)
(***************************************************************************)
EXTENDS Integers, Sequences, FiniteSets, TLC

(***************************************************************************)
(* Python values                                                           *)
(***************************************************************************)
\* Python's None, for the Optional[str] fields of models.Order and for the
\* three-valued results.
None == "<None>"

Min(a, b) == IF a <= b THEN a ELSE b
Max(a, b) == IF a >= b THEN a ELSE b

(***************************************************************************)
(* Characters and str methods                                              *)
(***************************************************************************)
Char(s, i) == SubSeq(s, i, i)

UpperLetters == "ABCDEFGHIJKLMNOPQRSTUVWXYZ"
LowerLetters == "abcdefghijklmnopqrstuvwxyz"
DigitChars == "0123456789"

Digits == {Char(DigitChars, i) : i \in 1..Len(DigitChars)}
LowerAZ == {Char(LowerLetters, i) : i \in 1..Len(LowerLetters)}
UpperAZ == {Char(UpperLetters, i) : i \in 1..Len(UpperLetters)}
\* the stand-ins for letters with diacritics (lower case)
DiacriticLetters == {"@", "^", "!", "$", "#"}
\* \w of a str pattern: letters (of any script), digits, underscore
WordChars == Digits \cup LowerAZ \cup UpperAZ \cup {"_"} \cup DiacriticLetters

IsDigit(c) == c \in Digits
IsLowerAZ(c) == c \in LowerAZ
IsSpace(c) == c = " "
IsWordChar(c) == c \in WordChars

DigitValue == [c \in Digits |-> CHOOSE d \in 0..9 : Char(DigitChars, d + 1) = c]

LowerOf == [c \in UpperAZ |-> Char(LowerLetters, CHOOSE i \in 1..26 : Char(UpperLetters, i) = c)]
RECURSIVE Lower(_)
\* str.lower()
Lower(s) ==
    IF s = "" THEN ""
    ELSE (IF Char(s, 1) \in UpperAZ THEN LowerOf[Char(s, 1)] ELSE Char(s, 1)) \o Lower(Tail(s))

RECURSIVE LStripFrom(_, _)
LStripFrom(s, i) ==
    IF i > Len(s) THEN Len(s) + 1
    ELSE IF IsSpace(Char(s, i)) THEN LStripFrom(s, i + 1) ELSE i

RECURSIVE RStripTo(_, _)
RStripTo(s, j) ==
    IF j < 1 THEN 0
    ELSE IF IsSpace(Char(s, j)) THEN RStripTo(s, j - 1) ELSE j

\* str.strip()
Strip(s) == SubSeq(s, LStripFrom(s, 1), RStripTo(s, Len(s)))

\* str.lstrip("0")
RECURSIVE LStripZeros(_)
LStripZeros(s) ==
    IF Len(s) > 0 /\ Char(s, 1) = "0" THEN LStripZeros(Tail(s)) ELSE s

\* s[i:] starts with p  (i is 1-based)
StartsWithAt(s, p, i) ==
    /\ i + Len(p) - 1 <= Len(s)
    /\ SubSeq(s, i, i + Len(p) - 1) = p

\* s.endswith(p)
EndsWith(s, p) == Len(p) <= Len(s) /\ SubSeq(s, Len(s) - Len(p) + 1, Len(s)) = p

\* p in s
Contains(s, p) == \E i \in 1..(Len(s) - Len(p) + 1) : StartsWithAt(s, p, i)

RECURSIVE Replace(_, _, _)
\* str.replace(old, new): left to right, non-overlapping
Replace(s, old, new) ==
    IF s = "" THEN ""
    ELSE IF StartsWithAt(s, old, 1)
         THEN new \o Replace(SubSeq(s, Len(old) + 1, Len(s)), old, new)
         ELSE Char(s, 1) \o Replace(Tail(s), old, new)

RECURSIVE WordsFrom(_, _, _)
\* the maximal runs of non-space characters of s[i:]; cur is the run being
\* read
WordsFrom(s, i, cur) ==
    IF i > Len(s) THEN (IF cur = "" THEN <<>> ELSE <<cur>>)
    ELSE IF IsSpace(Char(s, i))
         THEN (IF cur = "" THEN <<>> ELSE <<cur>>) \o WordsFrom(s, i + 1, "")
         ELSE WordsFrom(s, i + 1, cur \o Char(s, i))

\* str.split(): the whitespace-separated words
Words(s) == WordsFrom(s, 1, "")

RECURSIVE Join(_, _)
\* sep.join(ws)
Join(ws, sep) ==
    IF Len(ws) = 0 THEN ""
    ELSE IF Len(ws) = 1 THEN ws[1]
    ELSE ws[1] \o sep \o Join(Tail(ws), sep)

RECURSIVE OnlyDigits(_)
\* re.sub(r"\D", "", s)
OnlyDigits(s) ==
    IF s = "" THEN ""
    ELSE (IF IsDigit(Char(s, 1)) THEN Char(s, 1) ELSE "") \o OnlyDigits(Tail(s))

RECURSIVE RemoveSpaces(_)
\* re.sub(r"\s+", "", s)
RemoveSpaces(s) ==
    IF s = "" THEN ""
    ELSE (IF IsSpace(Char(s, 1)) THEN "" ELSE Char(s, 1)) \o RemoveSpaces(Tail(s))

RECURSIVE IntOfDigits(_, _)
\* int(s) for a string of digits, acc the value read so far
IntOfDigits(s, acc) ==
    IF s = "" THEN acc ELSE IntOfDigits(Tail(s), 10 * acc + DigitValue[Char(s, 1)])

RECURSIVE DigitRunEnd(_, _)
\* the position after the run of digits that starts at i
DigitRunEnd(s, i) ==
    IF i <= Len(s) /\ IsDigit(Char(s, i)) THEN DigitRunEnd(s, i + 1) ELSE i

RECURSIVE SpaceRunEnd(_, _)
\* the position after the run of whitespace that starts at i
SpaceRunEnd(s, i) ==
    IF i <= Len(s) /\ IsSpace(Char(s, i)) THEN SpaceRunEnd(s, i + 1) ELSE i

RECURSIVE FirstDigitPos(_, _)
\* the first position >= i that holds a digit, 0 when there is none
FirstDigitPos(s, i) ==
    IF i > Len(s) THEN 0
    ELSE IF IsDigit(Char(s, i)) THEN i ELSE FirstDigitPos(s, i + 1)

RECURSIVE ZFill(_, _)
\* str.zfill(n)
ZFill(s, n) == IF Len(s) >= n THEN s ELSE ZFill("0" \o s, n)

Range(f) == {f[i] : i \in DOMAIN f}

(***************************************************************************)
(* CONSTANTE                                                               *)
(***************************************************************************)
LOCKER_KEYWORDS ==
    {"easybox", "locker", "parcel locker", "packeta", "fanbox", "pachetomat",
     "parcelshop", "inpost", "omniva", "pickup point", "pick-up point",
     "automatul", "automat colet"}

PREFIX_ALIASES ==
    [strada     |-> {"strada", "strad@", "str", "st", "str.", "st.", "str@zii"},
     sosea      |-> {"sosea", "$osea", "sos", "$os", "soseaua", "$oseaua", "$os.", "sos."},
     intrare    |-> {"intrare", "intrarea", "intr", "int", "intr."},
     bulevard   |-> {"bulevard", "bulevardul", "bd", "bdul", "b-dul", "bvd", "blvd",
                     "bld", "bld.", "bdl", "bdl.", "b-ul", "b-ul."},
     piata      |-> {"piata", "pia#a", "p-ta", "p-#a", "pta", "p#a", "p-ta.", "p-#a."},
     alee       |-> {"alee", "aleea", "al", "al.", "aleei"},
     cale       |-> {"cale", "calea", "cal", "cal."},
     piateta    |-> {"piateta", "pia#et@", "ptet", "p#et", "ptt", "p#t"},
     splai      |-> {"splai", "splaiul", "spl", "spl."},
     drum       |-> {"drum", "drumul", "dr", "drm", "dr.", "drm."},
     prelungire |-> {"prelungire", "prelungirea", "prel", "prel.", "prelung"},
     pasaj      |-> {"pasaj", "pasajul", "pas", "psj", "psj."},
     ulita      |-> {"ulita", "uli#a", "ul", "ul."},
     fundatura  |-> {"fundatura", "fund@tura", "fund", "fdt", "fund.", "fdt."},
     cartier    |-> {"cartier", "cart", "cart."},
     varianta   |-> {"varianta", "variant@", "var", "var."},
     platou     |-> {"platou"},
     parc       |-> {"parc", "parcul"},
     pod        |-> {"pod", "podul"},
     canal      |-> {"canal"},
     scuar      |-> {"scuar"},
     poteca     |-> {"poteca", "potec@"}]

CANONICAL_PREFIXES == DOMAIN PREFIX_ALIASES

\* the keys of PREFIX_MAP
PrefixAliasSet == UNION {PREFIX_ALIASES[k] : k \in CANONICAL_PREFIXES}

\* PREFIX_MAP.get(w, w); no alias is listed under two canonical names
PREFIX_MAP(w) ==
    IF w \in PrefixAliasSet
    THEN CHOOSE k \in CANONICAL_PREFIXES : w \in PREFIX_ALIASES[k]
    ELSE w

TITLES_TO_IGNORE ==
    {"dr", "arh", "arhitect", "mat", "prof", "ing", "dr.", "arh.", "prof.", "ing."}

NOISE_WORDS ==
    {"sector", "sectorul", "bucuresti", "bucure$ti", "judetul", "jud", "localitatea",
     "oras", "ora$", "comuna", "sat", "romania", "rom^nia", "tara", "#ara",
     "cnas", "spclep", "spclep-ul", "casa", "salon", "business", "park", "iride",
     "cladirea", "cl@direa", "ghiseul", "ghi$eul", "birou", "biroul", "hala", "hala.",
     "corp", "corpul",
     "bl", "bloc", "sc", "scara", "ap", "apartament", "et", "etaj", "cam", "cam.",
     "lot", "complex",
     "po", "box", "po box"}

\* the alternatives of DELIMITERS[0], in the order of the pattern
DELIMITER_WORDS ==
    <<"nr", "no", "numar", "nr.", "no.", "bl", "bloc", "sc", "scara", "ap", "apart",
      "apartament", "et", "etaj", "complex", "lot", "cam", "cam.", "po box">>

(***************************************************************************)
(* HELPERI                                                                 *)
(***************************************************************************)
\* NFD decomposition followed by encode("ascii", "ignore"): a letter with a
\* diacritic keeps its base letter, any other non-ASCII character is dropped
AsciiFold(c) ==
    CASE c = "@" -> "a"
      [] c = "^" -> "a"
      [] c = "!" -> "i"
      [] c = "$" -> "s"
      [] c = "#" -> "t"
      [] c = "~" -> ""
      [] OTHER -> c

RECURSIVE FoldFrom(_, _)
\* the characters of s[i:], each folded to ASCII
FoldFrom(s, i) ==
    IF i > Len(s) THEN "" ELSE AsciiFold(Char(s, i)) \o FoldFrom(s, i + 1)

RECURSIVE CollapseFrom(_, _)
\* re.sub(r"\s+", " ", s) on s[i:]
CollapseFrom(s, i) ==
    IF i > Len(s) THEN ""
    ELSE IF IsSpace(Char(s, i))
         THEN " " \o CollapseFrom(s, SpaceRunEnd(s, i))
         ELSE Char(s, i) \o CollapseFrom(s, i + 1)

\* lower + remove diacritics + collapse spaces
normalize(s) ==
    IF s = None \/ s = "" THEN ""
    ELSE Strip(CollapseFrom(FoldFrom(Strip(Lower(s)), 1), 1))

normalize_zip(zip_str) ==
    IF zip_str = None \/ zip_str = "" THEN ""
    ELSE LET digits == OnlyDigits(zip_str)
         IN  IF digits = "" THEN ""
             ELSE IF Len(digits) < 6 THEN ZFill(digits, 6) ELSE digits

LemmaSuffixes ==
    <<"ilor", "ului", "iilor", "ilor", "urilor", "ul", "le", "ei", "ii", "lor", "a", "i">>

RECURSIVE LemmaFrom(_, _)
LemmaFrom(w, k) ==
    IF k > Len(LemmaSuffixes) THEN w
    ELSE LET suf == LemmaSuffixes[k]
         IN  IF EndsWith(w, suf) /\ Len(w) > Len(suf) + 2
             THEN SubSeq(w, 1, Len(w) - Len(suf))
             ELSE LemmaFrom(w, k + 1)

lemmatize_ro_token(w) == LemmaFrom(w, 1)

\* re.fullmatch(r"[a-z]\.?[a-z]?\.?", w)
IsInitials(w) ==
    /\ Len(w) >= 1
    /\ IsLowerAZ(Char(w, 1))
    /\ LET r == SubSeq(w, 2, Len(w))
       IN  \/ r \in {"", ".", ".."}
           \/ /\ Len(r) = 1 /\ IsLowerAZ(r)
           \/ /\ Len(r) = 2
              /\ \/ Char(r, 1) = "." /\ IsLowerAZ(Char(r, 2))
                 \/ IsLowerAZ(Char(r, 1)) /\ Char(r, 2) = "."
           \/ /\ Len(r) = 3
              /\ Char(r, 1) = "." /\ IsLowerAZ(Char(r, 2)) /\ Char(r, 3) = "."

\* the test of the loop of get_core_words: w is neither a title, a prefix, a
\* noise word, nor short or initials
IsCoreWord(w) ==
    /\ ~(w \in TITLES_TO_IGNORE \/ w \in CANONICAL_PREFIXES
         \/ w \in PrefixAliasSet \/ w \in NOISE_WORDS)
    /\ ~(Len(w) <= 2 \/ IsInitials(w))

\* the body of get_core_words on words = normalize(s).split()
CoreOfWords(words) ==
    IF Len(words) = 0 THEN {}
    ELSE {lemmatize_ro_token(words[i]) : i \in {j \in 1..Len(words) : IsCoreWord(words[j])}}
         \cup (IF PREFIX_MAP(words[1]) \in CANONICAL_PREFIXES
               THEN {PREFIX_MAP(words[1])} ELSE {})

get_core_words(s) == CoreOfWords(Words(normalize(s)))

\* the \b of a pattern between the characters i-1 and i of s (1-based):
\* exactly one of the two is a word character
WordBoundaryAt(s, i) ==
    LET IsW(k) == k \in 1..Len(s) /\ IsWordChar(Char(s, k))
    IN  IsW(i - 1) # IsW(i)

\* DELIMITERS[0] matches at position p of s (1-based)
DelimiterWordAt(s, p) ==
    /\ WordBoundaryAt(s, p)
    /\ \E k \in 1..Len(DELIMITER_WORDS) :
          /\ StartsWithAt(s, DELIMITER_WORDS[k], p)
          /\ WordBoundaryAt(s, p + Len(DELIMITER_WORDS[k]))

\* the 0-based start of the first match of either pattern of DELIMITERS,
\* len(s) when neither matches
FirstStartOrLen(hits, length) ==
    IF hits = {} THEN length
    ELSE (CHOOSE p \in hits : \A q \in hits : p <= q) - 1

_first_delim_pos(s) ==
    FirstStartOrLen({p \in 1..Len(s) : DelimiterWordAt(s, p) \/ Char(s, p) = ","}, Len(s))

\* the end (exclusive, 1-based) of a match of  \d+\s*[a-z]?\d*  that starts at
\* the digit at p, every quantifier taking all it can
NumberTokenEnd(s, p) ==
    LET e2 == SpaceRunEnd(s, DigitRunEnd(s, p))
    IN  DigitRunEnd(s, IF e2 <= Len(s) /\ IsLowerAZ(Char(s, e2)) THEN e2 + 1 ELSE e2)

\* the optional group (?:\s*[-...]\s*\d+\s*[a-z]?\d*)? after a first token
\* that ends at e4; the separators are the hyphen and the dashes
RangeTailEnd(s, e4) ==
    LET g1 == SpaceRunEnd(s, e4)
        g2 == SpaceRunEnd(s, g1 + 1)
    IN  IF /\ g1 <= Len(s) /\ Char(s, g1) \in {"-", "~"}
           /\ g2 <= Len(s) /\ IsDigit(Char(s, g2))
        THEN NumberTokenEnd(s, g2)
        ELSE e4

\* the end (exclusive, 1-based) of a match of the number pattern that starts
\* at the digit at p
NumberMatchEnd(s, p) == RangeTailEnd(s, NumberTokenEnd(s, p))

\* re.match(r"^(\d+\s*[a-z]?\d*)\s+(.*)", t): <<>> when there is no match,
\* else <<group(1), group(2)>>.  After the digits and the whitespace that
\* follows them the pattern first tries the optional letter and digits and
\* needs whitespace after them; failing that it gives one whitespace
\* character back to \s+.
NumFirstMatch(t) ==
    IF ~(Len(t) > 0 /\ IsDigit(Char(t, 1))) THEN <<>>
    ELSE LET d  == DigitRunEnd(t, 1)
             w  == SpaceRunEnd(t, d)
             d2 == NumberTokenEnd(t, 1)
         IN  IF d2 <= Len(t) /\ IsSpace(Char(t, d2))
             THEN <<SubSeq(t, 1, d2 - 1), SubSeq(t, SpaceRunEnd(t, d2), Len(t))>>
             ELSE IF w > d
             THEN <<SubSeq(t, 1, w - 2), SubSeq(t, w, Len(t))>>
             ELSE <<>>

NotNoise(w) == w \notin NOISE_WORDS

\* the components of the lowered address s, street_part being its prefix
\* before the first delimiter: number0 is the text of the first match of the
\* number pattern anywhere in s, without whitespace (None when s has no
\* digit), num_first the match of the number-first pattern on street_part
Components(s, street_part) ==
    LET p == FirstDigitPos(s, 1)
        number0 == IF p = 0 THEN None
                   ELSE RemoveSpaces(SubSeq(s, p, NumberMatchEnd(s, p) - 1))
        num_first == NumFirstMatch(street_part)
    IN  [street |-> Join(SelectSeq(Words(IF num_first # <<>> THEN num_first[2]
                                         ELSE street_part), NotNoise), " "),
         number |-> IF num_first # <<>> /\ number0 = None
                    THEN RemoveSpaces(num_first[1]) ELSE number0,
         has_number |-> number0 # None \/ (num_first # <<>> /\ number0 = None)]

ComponentsOfLowered(s) == Components(s, Strip(SubSeq(s, 1, _first_delim_pos(s))))

\* {'street': ..., 'number': ..., 'has_number': ...}
extract_street_components(address) ==
    ComponentsOfLowered(Strip(Lower(IF address = None THEN "" ELSE address)))

\* (base, suffix): <<>> when the token has no leading digits, else <<base>>;
\* the letter suffix is returned by the code and read by no caller
_parse_house_number(num) ==
    IF num = None \/ num = "" THEN <<>>
    ELSE LET t == Lower(num)
         IN  IF IsDigit(Char(t, 1))
             THEN <<IntOfDigits(SubSeq(t, 1, DigitRunEnd(t, 1) - 1), 0)>>
             ELSE <<>>

\* the position of the first c in s, 0 when there is none
FirstCharPos(s, c) ==
    IF \E i \in 1..Len(s) : Char(s, i) = c
    THEN CHOOSE i \in 1..Len(s) : Char(s, i) = c /\ \A j \in 1..(i - 1) : Char(s, j) # c
    ELSE 0

\* (None, None, False)
NoRange == [low |-> <<>>, high |-> <<>>, open_high |-> FALSE]

\* the range of the cleaned fragment t
RangeOfText(t) ==
    LET dash == FirstCharPos(t, "-")
    IN  IF dash # 0
        THEN LET a == OnlyDigits(SubSeq(t, 1, dash - 1))
                 b == SubSeq(t, dash + 1, Len(t))
             IN  IF a = "" THEN NoRange
                 ELSE IF b \in {"t", "T"}
                 THEN [low |-> <<IntOfDigits(a, 0)>>, high |-> <<>>, open_high |-> TRUE]
                 ELSE IF OnlyDigits(b) = "" THEN NoRange
                 ELSE [low |-> <<IntOfDigits(a, 0)>>,
                       high |-> <<IntOfDigits(OnlyDigits(b), 0)>>,
                       open_high |-> FALSE]
        ELSE LET p == FirstDigitPos(t, 1)
                 v == IntOfDigits(SubSeq(t, p, DigitRunEnd(t, p) - 1), 0)
             IN  IF p = 0 THEN NoRange
                 ELSE [low |-> <<v>>, high |-> <<v>>, open_high |-> FALSE]

\* (low, high, open_high); an absent low or high is <<>>, a present one <<n>>
_parse_db_range_one(fragment) ==
    IF fragment = None \/ fragment = "" THEN NoRange
    ELSE RangeOfText(Replace(RemoveSpaces(Strip(
             Replace(Replace(Replace(Replace(normalize(fragment),
                 "nr.", " "), "nr", " "), "no.", " "), "no", " "))), "~", "-"))


RECURSIVE SplitListFrom(_, _, _)
\* re.split(r"[;,]+", s): the pieces between runs of separators, the empty
\* pieces at the two ends included
SplitListFrom(s, i, cur) ==
    IF i > Len(s) THEN <<cur>>
    ELSE IF Char(s, i) \in {";", ","}
         THEN IF i > 1 /\ Char(s, i - 1) \in {";", ","}
              THEN SplitListFrom(s, i + 1, cur)
              ELSE <<cur>> \o SplitListFrom(s, i + 1, "")
         ELSE SplitListFrom(s, i + 1, cur \o Char(s, i))

\* any(x is not None for x in r): the third component is a bool, never None
AnyNotNone(r) == r.low # <<>> \/ r.high # <<>> \/ r.open_high \in BOOLEAN

_parse_db_ranges(db_numar) ==
    IF db_numar = None \/ db_numar = "" THEN <<>>
    ELSE LET parts == SplitListFrom(db_numar, 1, "")
         IN  SelectSeq([i \in 1..Len(parts) |-> _parse_db_range_one(parts[i])], AnyNotNone)

RECURSIVE InAnyRange(_, _, _)
\* the loop of number_in_range over ranges[k..]
InAnyRange(base, ranges, k) ==
    IF k > Len(ranges) THEN "False"
    ELSE IF ranges[k].low = <<>> THEN InAnyRange(base, ranges, k + 1)
    ELSE IF ranges[k].open_high /\ base >= ranges[k].low[1] THEN "True"
    ELSE IF /\ ranges[k].low[1] <= base
            /\ base <= (IF ranges[k].high = <<>> THEN ranges[k].low[1] ELSE ranges[k].high[1])
    THEN "True"
    ELSE InAnyRange(base, ranges, k + 1)

VerdictInRanges(base, ranges) ==
    IF ranges = <<>> THEN None ELSE InAnyRange(base, ranges, 1)

\* "True" -> in a range, "False" -> outside every range, None -> cannot tell
number_in_range(order_num, db_numar) ==
    IF order_num = None \/ order_num = "" \/ db_numar = None \/ db_numar = "" THEN None
    ELSE LET base == _parse_house_number(order_num)
         IN  IF base = <<>> THEN None
             ELSE VerdictInRanges(base[1], _parse_db_ranges(db_numar))

\* the characters of s as a sequence
CharSeq(s) == [i \in 1..Len(s) |-> Char(s, i)]

RECURSIVE CommonRun(_, _, _, _, _, _)
\* the length of the longest k with a[i:i+k] = b[j:j+k], i+k <= ahi,
\* j+k <= bhi (0-based, half-open, as in difflib); a and b are sequences of
\* characters
CommonRun(a, b, i, j, ahi, bhi) ==
    IF i < ahi /\ j < bhi /\ a[i + 1] = b[j + 1]
    THEN 1 + CommonRun(a, b, i + 1, j + 1, ahi, bhi)
    ELSE 0

RECURSIVE LongestInRow(_, _, _, _, _, _, _)
\* the scan of the starts (i, j), j from j up to bhi: best is the longest
\* common run found so far, <<i, j, k>>, and only a strictly longer run
\* replaces it
LongestInRow(a, b, ahi, bhi, i, j, best) ==
    IF j >= bhi THEN best
    ELSE LET k == CommonRun(a, b, i, j, ahi, bhi)
         IN  IF k > best[3]
             THEN LongestInRow(a, b, ahi, bhi, i, j + 1, <<i, j, k>>)
             ELSE LongestInRow(a, b, ahi, bhi, i, j + 1, best)

\* SequenceMatcher.find_longest_match without junk: <<i, j, k>> with k
\* maximal, then i minimal, then j minimal; rows holds, for each i, the first
\* longest common run that starts at i
find_longest_match(a, b, alo, ahi, blo, bhi) ==
    IF alo >= ahi THEN <<alo, blo, 0>>
    ELSE LET rows == {LongestInRow(a, b, ahi, bhi, i, blo, <<i, blo, 0>>) : i \in alo..(ahi - 1)}
         IN  CHOOSE m \in rows :
                \A m2 \in rows : m[3] > m2[3] \/ (m[3] = m2[3] /\ m[1] <= m2[1])

RECURSIVE MatchedChars(_, _, _, _, _, _)
RECURSIVE MatchedAround(_, _, _, _, _, _, _)
\* the size of the match m and of the matching blocks to its left and right
MatchedAround(a, b, alo, ahi, blo, bhi, m) ==
    IF m[3] = 0 THEN 0
    ELSE m[3] + MatchedChars(a, b, alo, m[1], blo, m[2])
              + MatchedChars(a, b, m[1] + m[3], ahi, m[2] + m[3], bhi)

\* the sum of the sizes of SequenceMatcher.get_matching_blocks(): the longest
\* match, then the same to its left and to its right
MatchedChars(a, b, alo, ahi, blo, bhi) ==
    MatchedAround(a, b, alo, ahi, blo, bhi, find_longest_match(a, b, alo, ahi, blo, bhi))

\* 2.0 * M / T on the normalized strings, 1.0 for two empty ones
RatioOf(na, nb) ==
    IF Len(na) + Len(nb) = 0 THEN <<1, 1>>
    ELSE <<2 * MatchedChars(CharSeq(na), CharSeq(nb), 0, Len(na), 0, Len(nb)),
           Len(na) + Len(nb)>>

\* SequenceMatcher(None, normalize(a), normalize(b)).ratio(), as the rational
\* <<numerator, denominator>>
seq_similarity(a, b) == RatioOf(normalize(a), normalize(b))

\* comparisons of rationals with positive denominators
RatGeq(x, y) == x[1] * y[2] >= y[1] * x[2]
RatGt(x, y) == x[1] * y[2] > y[1] * x[2]
RatLt(x, y) == x[1] * y[2] < y[1] * x[2]
RatAdd(x, y) == <<x[1] * y[2] + y[1] * x[2], x[2] * y[2]>>
RatMul(x, y) == <<x[1] * y[1], x[2] * y[2]>>

\* int(round(q * 100)) for a rational q >= 0: Python rounds a half to even
RoundTimes100(q) ==
    LET n == 100 * q[1]
        fl == n \div q[2]
        twice == 2 * (n % q[2])
    IN  IF twice < q[2] THEN fl
        ELSE IF twice > q[2] THEN fl + 1
        ELSE IF fl % 2 = 0 THEN fl ELSE fl + 1

(***************************************************************************)
(* The repository: models.RomaniaAddress rows behind an AsyncSession       *)
(***************************************************************************)
RECURSIVE Orderings(_)
\* the sequences that list every element of S once
Orderings(S) ==
    IF S = {} THEN {<<>>}
    ELSE UNION {{<<x>> \o t : t \in Orderings(S \ {x})} : x \in S}

\* (await db.execute(stmt)).scalars().all(): the statement either fails, and
\* the exception reaches the caller of db.execute, or it returns the matching
\* rows; no statement has an ORDER BY, so the rows come in any order
execute(matches) ==
    {[ok |-> FALSE, rows |-> <<>>]} \cup {[ok |-> TRUE, rows |-> rs] : rs \in Orderings(matches)}

\* column.ilike(pattern) for a pattern without the wildcards % and _
ilike(value, pattern) == value # None /\ Lower(value) = Lower(pattern)

\* select(RomaniaAddress).where(RomaniaAddress.cod_postal.in_(zip_candidates))
stmt_zip(rows, in_zip) ==
    {r \in rows : r.cod_postal # None /\ r.cod_postal \in {in_zip, LStripZeros(in_zip)}}

\* select(RomaniaAddress).where(RomaniaAddress.judet.ilike(key))
stmt_city(rows, key) == {r \in rows : ilike(r.judet, key)}

\* select(RomaniaAddress).where(judet.ilike(in_judet), localitate == best_city)
stmt_city_only(rows, in_judet, best_city) ==
    {r \in rows : ilike(r.judet, in_judet) /\ r.localitate # None /\ r.localitate = best_city}

(***************************************************************************)
(* VALIDATOR                                                               *)
(***************************************************************************)
\* x or ''
OrEmpty(x) == IF x = None THEN "" ELSE x

\* bool(x) for an Optional[str]
Truthy(x) == x # None /\ x # ""

MSG_LOCKER == "Adres@ de tip Locker/Pickup Point."
MSG_NO_COUNTY_CITY == "Jude#ul $i/sau localitatea lipsesc."
MSG_NO_STREET == "Adres@ incomplet@: lipse$te strada."
MSG_NO_NUMBER == "Adres@ incomplet@: lipse$te num@rul str@zii."
MSG_ZIP_FALLTHROUGH ==
    "Codul po$tal nu a putut fi validat pentru strad@; continui potrivirea dup@ localitate $i nume."
MSG_NO_NOMENCLATURE ==
    "Localitate f@r@ nomenclator stradal: validat pe baza prezen#ei strad@ + num@r."
MsgOutOfRange(number, db_numar) ==
    "Num@rul " \o number \o " este !n afara intervalului " \o db_numar \o "."
MsgOutOfRangeUnknown(number) ==
    "Num@rul " \o number \o " pare !n afara intervalului din nomenclator."
MsgStreetSuggestion(db_full) == "Sugestie strad@: '" \o db_full \o "'"
MsgZipSuggestion(db_zip) == "Sugestie cod po$tal: " \o normalize_zip(db_zip)
MsgCountyNotFound(in_judet) == "Jude#ul '" \o in_judet \o "' nu a fost g@sit !n nomenclator."
MsgCityNotFound(in_city, in_judet) ==
    "Localitatea '" \o in_city \o "' nu a fost g@sit@ !n jude#ul '" \o in_judet \o "'."
MsgStreetNotMatched(street, best_city) ==
    "Nu am reu$it s@ potrivesc strada '" \o street \o "' !n " \o best_city \o "."

\* What one call did: how it ended, the three fields of the order as the call
\* left them, the lookups it issued in order, and the rows the postal-code
\* lookup returned.
Returned(status, score, errors, lookups, zip_rows) ==
    [outcome |-> "returned", exc |-> "",
     address_status |-> status, address_score |-> score,
     address_validation_errors |-> errors,
     lookups |-> lookups, zip_rows |-> zip_rows]

\* an exception leaves validate_address_for_order: nothing catches it, and the
\* order keeps the fields it had
Raised(exc, o, lookups, zip_rows) ==
    [outcome |-> "raised", exc |-> exc,
     address_status |-> o.address_status, address_score |-> o.address_score,
     address_validation_errors |-> o.address_validation_errors,
     lookups |-> lookups, zip_rows |-> zip_rows]

\* one db.execute of the call: what it looked up by, and whether it succeeded
Lookup(kind, ok) == [kind |-> kind, ok |-> ok]

\* a variant of LookupFailure that catches the exception and reports not_found
LookupFailure_Swallowed(o, lookups, zip_rows) ==
    {Returned("not_found", 0, <<"Eroare la interogarea nomenclatorului.">>, lookups, zip_rows)}

\* db.execute raised: validate_address_for_order has no try/except, so the
\* exception leaves it; `lookups` ends with the lookup that failed
LookupFailure(o, lookups, zip_rows) == {Raised("DBAPIError", o, lookups, zip_rows)}

\* f"{order.shipping_address1 or ''} {order.shipping_address2 or ''}".strip()
InStreetRaw(o) == Strip(OrEmpty(o.shipping_address1) \o " " \o OrEmpty(o.shipping_address2))

\* a variant of IsLocker that compares without lower-casing
IsLocker_CaseSensitive(in_street_raw) ==
    \E k \in LOCKER_KEYWORDS : Contains(in_street_raw, k)

\* any(k in in_street_raw.lower() for k in LOCKER_KEYWORDS)
IsLocker(in_street_raw) ==
    LET lowered == Lower(in_street_raw)
    IN  \E k \in LOCKER_KEYWORDS : Contains(lowered, k)

\* Prefera address2 daca ofera strada + numar, sau daca prima parsare a scos
\* ceva dubios (bad_start: its street begins with a building word)
PreferParsed2(parsed, parsed2) ==
    LET sw == Words(parsed.street)
        bad_start == /\ Truthy(parsed.street)
                     /\ Len(sw) > 0 /\ sw[1] \in {"bl", "bloc", "sc", "scara"}
    IN  IF Truthy(parsed2.street) /\ parsed2.has_number THEN parsed2
        ELSE IF bad_start /\ Truthy(parsed2.street) THEN parsed2
        ELSE parsed

\* daca nu avem strada+numar, incearca address2 separat
TryAddress2(parsed, a2) ==
    IF /\ (~Truthy(parsed.street) \/ ~parsed.has_number)
       /\ Truthy(a2) /\ Strip(a2) # "" /\ Lower(a2) # "none"
    THEN PreferParsed2(parsed, extract_street_components(a2))
    ELSE parsed

\* 1) Parsare strada/numar: the concatenated lines, or address line 2 alone
ParsedStreet(o) ==
    TryAddress2(extract_street_components(InStreetRaw(o)), o.shipping_address2)

\* f"{db_addr.tip_artera or ''} {db_addr.nume_strada or ''}".strip()
StreetFull(r) == Strip(OrEmpty(r.tip_artera) \o " " \o OrEmpty(r.nume_strada))

\* len(a & b) / (len(a | b) or 1)
Jaccard(a, b) ==
    <<Cardinality(a \cap b), IF a \cup b = {} THEN 1 ELSE Cardinality(a \cup b)>>

\* jacc + 0.15 * ratio
MatchScore(parsed, parsed_core, r) ==
    RatAdd(Jaccard(parsed_core, get_core_words(StreetFull(r))),
           RatMul(<<15, 100>>, seq_similarity(OrEmpty(parsed.street), StreetFull(r))))

\* a variant of ScoreBeats under which a later row replaces an equal earlier one
ScoreBeats_OrTies(score, best_score) == RatGeq(score, best_score)

\* if score > best["score"]
ScoreBeats(score, best_score) == RatGt(score, best_score)

RECURSIVE BestIndexFrom(_, _, _, _, _, _)
RECURSIVE BestIndexStep(_, _, _, _, _, _, _)
\* one iteration of the loop, with the score of rows[k]
BestIndexStep(rows, parsed, parsed_core, k, best, best_score, score) ==
    IF ScoreBeats(score, best_score)
    THEN BestIndexFrom(rows, parsed, parsed_core, k + 1, k, score)
    ELSE BestIndexFrom(rows, parsed, parsed_core, k + 1, best, best_score)

\* the loop "if score > best['score']: best = ..." over rows[k..]: the index
\* of the row it ends with, 0 for best["obj"] = None
BestIndexFrom(rows, parsed, parsed_core, k, best, best_score) ==
    IF k > Len(rows) THEN best
    ELSE BestIndexStep(rows, parsed, parsed_core, k, best, best_score,
                       MatchScore(parsed, parsed_core, rows[k]))

\* best = {"score": -1.0, ...} and the loop
BestIndex(rows, parsed, parsed_core) ==
    BestIndexFrom(rows, parsed, parsed_core, 1, 0, <<-1, 1>>)

\* max(0, min(100, score))
Clamp(score) == Max(0, Min(100, score))

\* The names bound in the module's namespace when validate_address_for_order
\* runs: its imports, its constants and its functions.
ModuleNames ==
    {"annotations", "logging", "re", "unicodedata", "SequenceMatcher",
     "Optional", "Dict", "Set", "Tuple", "List", "select", "or_", "AsyncSession", "models",
     "LOCKER_KEYWORDS", "PREFIX_ALIASES", "PREFIX_MAP", "CANONICAL_PREFIXES",
     "TITLES_TO_IGNORE", "NOISE_WORDS", "DELIMITERS", "SECTOR_ROMAN",
     "normalize", "normalize_zip", "parse_sector", "lemmatize_ro_token", "get_core_words",
     "_first_delim_pos", "_looks_building_token_start", "extract_street_components",
     "_parse_house_number", "_parse_db_range_one", "_parse_db_ranges", "number_in_range",
     "seq_similarity", "validate_address_for_order"}

\* a variant of LocalityRegexModule that names the module as it was imported
LocalityRegexModule_Imported == "re"

\* the module name the locality heuristic calls search() on
LocalityRegexModule == "_re"

\* verificam intervalul pentru numar: the score after the bonus or the penalty
ZipScoreAfterNumber(score, num_ok) ==
    IF num_ok = "True" THEN Min(100, score + 20)
    ELSE IF num_ok = "False" THEN Max(0, score - 30)
    ELSE score

\* the diagnostic appended when the number is outside the ranges
ZipNumberErrors(num_ok, number, db_numar) ==
    IF num_ok = "False"
    THEN <<IF Truthy(db_numar) THEN MsgOutOfRange(number, db_numar)
           ELSE MsgOutOfRangeUnknown(number)>>
    ELSE <<>>

\* a variant of ZipStatus that misspells the status it writes
ZipStatus_Misspelt(jacc, ratio, has_number, num_ok) ==
    IF /\ (RatGeq(jacc, <<6, 10>>) \/ (RatGeq(ratio, <<7, 10>>) /\ has_number))
       /\ num_ok \in {"True", None}
    THEN "valid" ELSE "partial-match"

\* decizie status (permite lipsa prefixului daca ratio e mare si avem numar)
ZipStatus(jacc, ratio, has_number, num_ok) ==
    IF /\ (RatGeq(jacc, <<6, 10>>) \/ (RatGeq(ratio, <<7, 10>>) /\ has_number))
       /\ num_ok \in {"True", None}
    THEN "valid" ELSE "partial_match"

\* sugestii: the street, then the canonical postal code
ZipSuggestions(parsed_core, db_address) ==
    (IF parsed_core # get_core_words(StreetFull(db_address))
     THEN <<MsgStreetSuggestion(StreetFull(db_address))>> ELSE <<>>)
    \o (IF OrEmpty(db_address.cod_postal) # ""
        THEN <<MsgZipSuggestion(OrEmpty(db_address.cod_postal))>> ELSE <<>>)

\* STRATEGIA 1 after the scoring loop chose db_address: the number check,
\* and either the fall-through (accepted = FALSE, with the diagnostics
\* recorded so far) or the fields written on the order.  ratio is the loop
\* variable of the scoring loop as the loop left it.
ZipDecision(parsed, parsed_core, db_address, jacc, ratio, num_ok) ==
    IF RatLt(jacc, <<5, 10>>)
    THEN [accepted |-> FALSE,
          errors |-> ZipNumberErrors(num_ok, parsed.number, db_address.numar)]
    ELSE [accepted |-> TRUE,
          status |-> ZipStatus(jacc, ratio, parsed.has_number, num_ok),
          score |-> Clamp(ZipScoreAfterNumber(RoundTimes100(jacc), num_ok)),
          errors |-> ZipNumberErrors(num_ok, parsed.number, db_address.numar)
                     \o ZipSuggestions(parsed_core, db_address)]

\* b is the index of the row the scoring loop ended with (0: none); the
\* similarity kept in `ratio` is that of the last row of db_addrs_by_zip
ZipMatchAt(parsed, parsed_core, rows, b) ==
    IF b = 0 THEN [accepted |-> FALSE, errors |-> <<>>]
    ELSE ZipDecision(parsed, parsed_core, rows[b],
                     Jaccard(parsed_core, get_core_words(StreetFull(rows[b]))),
                     seq_similarity(OrEmpty(parsed.street), StreetFull(rows[Len(rows)])),
                     number_in_range(parsed.number, rows[b].numar))

\* STRATEGIA 1, for a non-empty db_addrs_by_zip
ZipMatch(parsed, parsed_core, rows) ==
    ZipMatchAt(parsed, parsed_core, rows, BestIndex(rows, parsed, parsed_core))

\* re.sub(r"\\(.*\\)", "", s): the pattern is a backslash, anything, a
\* backslash; it removes the text from the first backslash to the last one
RemoveBackslashSpan(s) ==
    LET bs == {i \in 1..Len(s) : Char(s, i) = "\\"}
    IN  IF Cardinality(bs) < 2 THEN s
        ELSE LET i == CHOOSE x \in bs : \A y \in bs : x <= y
                 j == CHOOSE x \in bs : \A y \in bs : x >= y
             IN  SubSeq(s, 1, i - 1) \o SubSeq(s, j + 1, Len(s))

\* s.split(sep)[0]
BeforeFirst(s, sep) ==
    LET hits == {i \in 1..Len(s) : StartsWithAt(s, sep, i)}
    IN  IF hits = {} THEN s
        ELSE SubSeq(s, 1, (CHOOSE i \in hits : \A j \in hits : i <= j) - 1)

\* normalize(re.sub(r"\\(.*\\)", "", in_city).split("sector")[0].strip())
NormCity(in_city) == normalize(Strip(BeforeFirst(RemoveBackslashSpan(in_city), "sector")))

RECURSIVE CityKeysFrom(_, _, _)
\* the keys of city_counts in insertion order: normalize(x.localitate) of
\* rows[k..], each once
CityKeysFrom(rows, k, seen) ==
    IF k > Len(rows) THEN <<>>
    ELSE LET key == normalize(rows[k].localitate)
         IN  IF key \in seen THEN CityKeysFrom(rows, k + 1, seen)
             ELSE <<key>> \o CityKeysFrom(rows, k + 1, seen \cup {key})

\* city_counts[key]: the localitate of the last row with that key
CityRaw(rows, key) ==
    LET is == {i \in 1..Len(rows) : normalize(rows[i].localitate) = key}
    IN  rows[CHOOSE i \in is : \A j \in is : j <= i].localitate

RECURSIVE BestCityFrom(_, _, _, _, _)
RECURSIVE BestCityStep(_, _, _, _, _, _)
\* one iteration of the loop, with the similarity r of keys[k]
BestCityStep(norm_city, keys, k, best, best_ratio, r) ==
    IF RatGt(r, best_ratio)
    THEN BestCityFrom(norm_city, keys, k + 1, k, r)
    ELSE BestCityFrom(norm_city, keys, k + 1, best, best_ratio)

\* the loop "if r > best_city_ratio" over keys[k..]: <<index of the best key
\* (0 for None), its ratio>>
BestCityFrom(norm_city, keys, k, best, best_ratio) ==
    IF k > Len(keys) THEN <<best, best_ratio>>
    ELSE BestCityStep(norm_city, keys, k, best, best_ratio,
                      seq_similarity(norm_city, keys[k]))

\* best_city = city_counts[key] of the key the loop ended with
BestCityAt(all_in_judet, keys, b) ==
    [city |-> IF b[1] = 0 THEN None ELSE CityRaw(all_in_judet, keys[b[1]]),
     ratio |-> b[2]]

\* alegem cea mai apropiata localitate din judet: [city, ratio]; the first
\* loop over city_counts (with extracted_loc) is overwritten by the second,
\* which is the one modelled
BestCity(in_city, all_in_judet) ==
    BestCityAt(all_in_judet, CityKeysFrom(all_in_judet, 1, {}),
               BestCityFrom(NormCity(in_city), CityKeysFrom(all_in_judet, 1, {}), 1, 0, <<0, 1>>))

HasStreetName(r) == Truthy(r.nume_strada)

\* street_score = int(round(jacc * 100)), and the penalty
\* int(street_score * 0.9) when a postal code was given
StreetBaseScore(jacc, in_zip) ==
    IF in_zip # "" THEN (RoundTimes100(jacc) * 9) \div 10 ELSE RoundTimes100(jacc)

\* verificare numar in interval
StreetScoreAfterNumber(street_score, rng_ok) ==
    IF rng_ok = "True" THEN Min(100, street_score + 20)
    ELSE IF rng_ok = "False" THEN Max(0, street_score - 30)
    ELSE street_score

StreetNumberErrors(rng_ok, number, best_numar) ==
    IF rng_ok = "False"
    THEN <<IF Truthy(best_numar) THEN MsgOutOfRange(number, best_numar)
           ELSE MsgOutOfRangeUnknown(number)>>
    ELSE <<>>

\* decizie finala
StreetStatus(jacc, ratio, has_number, rng_ok) ==
    IF /\ (RatGeq(jacc, <<6, 10>>) \/ (RatGeq(ratio, <<7, 10>>) /\ has_number))
       /\ rng_ok \in {"True", None}
    THEN "valid" ELSE "partial_match"

StreetSuggestions(parsed_core, best_obj) ==
    (IF parsed_core # get_core_words(StreetFull(best_obj))
     THEN <<MsgStreetSuggestion(StreetFull(best_obj))>> ELSE <<>>)
    \o (IF OrEmpty(best_obj.cod_postal) # ""
        THEN <<MsgZipSuggestion(OrEmpty(best_obj.cod_postal))>> ELSE <<>>)

\* the score, the number check and the final decision for the street best_obj
StreetDecision(parsed, parsed_core, in_zip, errors, best_obj, jacc, rng_ok, lookups, zip_rows) ==
    Returned(StreetStatus(jacc, seq_similarity(OrEmpty(parsed.street), StreetFull(best_obj)),
                          parsed.has_number, rng_ok),
             Clamp(StreetScoreAfterNumber(StreetBaseScore(jacc, in_zip), rng_ok)),
             errors \o StreetNumberErrors(rng_ok, parsed.number, best_obj.numar)
                    \o StreetSuggestions(parsed_core, best_obj),
             lookups, zip_rows)

\* b is the index in cands of the street the loop ended with (0: none)
StreetMatchAt(parsed, parsed_core, in_zip, errors, cands, b, best_city, lookups, zip_rows) ==
    IF b = 0
    THEN Returned("not_found", 0,
                  errors \o <<MsgStreetNotMatched(parsed.street, best_city)>>,
                  lookups, zip_rows)
    ELSE StreetDecision(parsed, parsed_core, in_zip, errors, cands[b],
                        Jaccard(parsed_core, get_core_words(StreetFull(cands[b]))),
                        number_in_range(parsed.number, cands[b].numar),
                        lookups, zip_rows)

\* Cauta cea mai buna strada din localitate (the same loop as in STRATEGIA 1,
\* over the rows that have a street name), and the final decision
StreetMatch(parsed, parsed_core, in_zip, errors, city_rows, best_city, lookups, zip_rows) ==
    StreetMatchAt(parsed, parsed_core, in_zip, errors, SelectSeq(city_rows, HasStreetName),
                  BestIndex(SelectSeq(city_rows, HasStreetName), parsed, parsed_core),
                  best_city, lookups, zip_rows)

\* STRATEGIA 2 after the locality was chosen: the lookup of its streets
StreetsOfLocality(o, rows, parsed, parsed_core, in_zip, errors, best, lookups, zip_rows) ==
    IF ~Truthy(best.city) \/ RatLt(best.ratio, <<5, 10>>)
    THEN {Returned("not_found", 0,
                   <<MsgCityNotFound(OrEmpty(o.shipping_city), OrEmpty(o.shipping_province))>>,
                   lookups, zip_rows)}
    ELSE
    UNION {
      IF ~a.ok
      THEN LookupFailure(o, lookups \o <<Lookup("judet+localitate", FALSE)>>, zip_rows)
      ELSE IF ~(\E k \in 1..Len(a.rows) : HasStreetName(a.rows[k]))
      THEN {Returned("valid", 70, <<MSG_NO_NOMENCLATURE>>,
                     lookups \o <<Lookup("judet+localitate", TRUE)>>, zip_rows)}
      ELSE {StreetMatch(parsed, parsed_core, in_zip, errors, a.rows, best.city,
                        lookups \o <<Lookup("judet+localitate", TRUE)>>, zip_rows)}
      : a \in execute(stmt_city_only(rows, OrEmpty(o.shipping_province), best.city)) }

\* STRATEGIA 2 after the county was found: the locality, then its streets
LocalityAndStreet(o, rows, parsed, parsed_core, in_zip, errors, all_in_judet, lookups, zip_rows) ==
    IF LocalityRegexModule \notin ModuleNames
    THEN {Raised("NameError", o, lookups, zip_rows)}
    ELSE StreetsOfLocality(o, rows, parsed, parsed_core, in_zip, errors,
                           BestCity(OrEmpty(o.shipping_city), all_in_judet), lookups, zip_rows)

\* the county lookup under the normalized name, then, if that returned no
\* row, under the raw one: each way the two can end, with the rows found and
\* the lookups issued
CountyLookups(rows, in_judet, lookups) ==
    UNION {
      IF ~a.ok
      THEN {[ok |-> FALSE, rows |-> <<>>, lookups |-> lookups \o <<Lookup("judet", FALSE)>>]}
      ELSE IF a.rows # <<>>
      THEN {[ok |-> TRUE, rows |-> a.rows, lookups |-> lookups \o <<Lookup("judet", TRUE)>>]}
      ELSE {[ok |-> a2.ok, rows |-> a2.rows,
             lookups |-> lookups \o <<Lookup("judet", TRUE), Lookup("judet", a2.ok)>>]
            : a2 \in execute(stmt_city(rows, in_judet))}
      : a \in execute(stmt_city(rows, normalize(in_judet))) }

\* 3) STRATEGIA 2: the county, then the locality and the street
Strategy2(o, rows, parsed, parsed_core, in_zip, errors, lookups, zip_rows) ==
    UNION {
      IF ~c.ok THEN LookupFailure(o, c.lookups, zip_rows)
      ELSE IF c.rows = <<>>
      THEN {Returned("not_found", 0, <<MsgCountyNotFound(OrEmpty(o.shipping_province))>>,
                     c.lookups, zip_rows)}
      ELSE LocalityAndStreet(o, rows, parsed, parsed_core, in_zip, errors, c.rows,
                             c.lookups, zip_rows)
      : c \in CountyLookups(rows, OrEmpty(o.shipping_province), lookups) }

\* STRATEGIA 1 did not settle the order: control goes on to STRATEGIA 2 with
\* the diagnostics recorded so far
FellThrough(errors, lookups, zip_rows) ==
    [outcome |-> "fallthrough", exc |-> "",
     address_status |-> "", address_score |-> 0,
     address_validation_errors |-> errors,
     lookups |-> lookups, zip_rows |-> zip_rows]

\* what STRATEGIA 1 does with the decision z on the rows of the postal code
ZipOutcome(z, zip_rows) ==
    IF z.accepted
    THEN Returned(z.status, z.score, z.errors, <<Lookup("cod_postal", TRUE)>>, zip_rows)
    ELSE FellThrough(z.errors \o <<MSG_ZIP_FALLTHROUGH>>, <<Lookup("cod_postal", TRUE)>>, zip_rows)

\* 2) STRATEGIA 1 (if in_zip): the lookup by postal code, then the decision
\* on its rows or the fall-through
Strategy1(o, rows, parsed, parsed_core, in_zip) ==
    IF in_zip = "" THEN {FellThrough(<<>>, <<>>, <<>>)}
    ELSE
    UNION {
      IF ~a.ok THEN LookupFailure(o, <<Lookup("cod_postal", FALSE)>>, <<>>)
      ELSE IF a.rows = <<>>
      THEN {FellThrough(<<MSG_ZIP_FALLTHROUGH>>, <<Lookup("cod_postal", TRUE)>>, a.rows)}
      ELSE {ZipOutcome(ZipMatch(parsed, parsed_core, a.rows), a.rows)}
      : a \in execute(stmt_zip(rows, in_zip)) }

\* a variant of Preconditions that asks for the number before the street
Preconditions_NumberFirst(o, parsed) ==
    IF OrEmpty(o.shipping_province) = "" \/ OrEmpty(o.shipping_city) = ""
    THEN <<Returned("not_found", 0, <<MSG_NO_COUNTY_CITY>>, <<>>, <<>>)>>
    ELSE IF ~parsed.has_number
    THEN <<Returned("invalid", 0, <<MSG_NO_NUMBER>>, <<>>, <<>>)>>
    ELSE IF ~(Truthy(parsed.street) /\ Strip(parsed.street) # "")
    THEN <<Returned("invalid", 0, <<MSG_NO_STREET>>, <<>>, <<>>)>>
    ELSE <<>>

\* 0) "Minim: judet + localitate", then "Strada este obligatorie", then
\* "Numarul este obligatoriu": <<the result returned>>, or <<>> for an order
\* that goes on to the lookups
Preconditions(o, parsed) ==
    IF OrEmpty(o.shipping_province) = "" \/ OrEmpty(o.shipping_city) = ""
    THEN <<Returned("not_found", 0, <<MSG_NO_COUNTY_CITY>>, <<>>, <<>>)>>
    ELSE IF ~(Truthy(parsed.street) /\ Strip(parsed.street) # "")
    THEN <<Returned("invalid", 0, <<MSG_NO_STREET>>, <<>>, <<>>)>>
    ELSE IF ~parsed.has_number
    THEN <<Returned("invalid", 0, <<MSG_NO_NUMBER>>, <<>>, <<>>)>>
    ELSE <<>>

\* STRATEGIA 1, and STRATEGIA 2 for the orders it did not settle
Strategies(o, rows, parsed, parsed_core, in_zip) ==
    UNION {
      IF z.outcome = "fallthrough"
      THEN Strategy2(o, rows, parsed, parsed_core, in_zip,
                     z.address_validation_errors, z.lookups, z.zip_rows)
      ELSE {z}
      : z \in Strategy1(o, rows, parsed, parsed_core, in_zip) }

\* the preconditions on the parse, then the strategies
AfterParsing(rows, o, parsed) ==
    LET pre == Preconditions(o, parsed)
    IN  IF pre # <<>> THEN {pre[1]}
        ELSE Strategies(o, rows, parsed, get_core_words(OrEmpty(parsed.street)),
                        normalize_zip(Strip(OrEmpty(o.shipping_zip))))

\* The outcomes validate_address_for_order(db, order) can have on the order o
\* with the reference rows `rows`: one for each way the lookups it issues can
\* fail or order their rows.
validate_address_for_order(rows, o) ==
    IF IsLocker(InStreetRaw(o))
    THEN {Returned("valid", 100, <<MSG_LOCKER>>, <<>>, <<>>)}
    ELSE AfterParsing(rows, o, ParsedStreet(o))

(***************************************************************************)
(* The state machine: one order, one snapshot of the reference data, and   *)
(* calls of validate_address_for_order on them.                            *)
(***************************************************************************)
VARIABLES
    db,      \* the RomaniaAddress rows of the snapshot
    order,   \* the models.Order: its shipping fields and the three fields the validator writes
    last,    \* what the last call of validate_address_for_order did, and the
             \* fields of the order before it
    nr,      \* the house-number check: a token, a range expression, the verdict
    cw,      \* the core-word check: a street type, one of its aliases, a name,
             \* and the core words of the two phrases
    sync_in_progress,  \* the module variable of routes/sync.py
    background_tasks,  \* the run_sync tasks the triggers added, each with its state
    responses          \* the responses of the triggers, in the order they were served

addressVars == <<db, order, last, nr, cw>>
syncVars == <<sync_in_progress, background_tasks, responses>>
vars == <<db, order, last, nr, cw, sync_in_progress, background_tasks, responses>>

\* the most rows a snapshot holds
MaxRows == 2

Row(judet, localitate, tip_artera, nume_strada, numar, cod_postal) ==
    [judet |-> judet, localitate |-> localitate, tip_artera |-> tip_artera,
     nume_strada |-> nume_strada, numar |-> numar, cod_postal |-> cod_postal]

\* the rows the snapshots are drawn from: one street in two number ranges
\* under one postal code, a longer and a similar street name under the same
\* code, and a locality without street nomenclature
RowPool ==
    {Row("Brasov", "Brasov", "strada", "Iorga", "1-3", "500001"),
     Row("Brasov", "Brasov", "strada", "Iorga", "4-T", "500001"),
     Row("Brasov", "Brasov", "strada", "Nicolae Iorga", "1-25", "500001"),
     Row("Brasov", "Brasov", None, "Iorgan", "1-3", "500001"),
     Row("Brasov", "Bod", None, None, None, "7015")}

Address1Pool == {"Str Iorga 5", "Iorga 30", "Str Iorga", "nr 5", "EasyBox 12", ""}
Address2Pool == {None, "Str Iorga 5"}
ZipPool == {"", "500001", "7015"}
\* <<shipping_province, shipping_city>>
LocationPool ==
    {<<"", "Brasov">>, <<"Brasov", "">>, <<"Brasov", "Brasov">>, <<"Brasov", "Bod">>,
     <<"Cluj", "Brasov">>}

\* the fields an earlier validation left on the order
PriorFields ==
    [address_status |-> "partial_match", address_score |-> 35,
     address_validation_errors |-> <<"Sugestie strad@: 'x'">>]

Written(r) ==
    [address_status |-> r.address_status, address_score |-> r.address_score,
     address_validation_errors |-> r.address_validation_errors]

NoCall ==
    [outcome |-> "none", exc |-> "", lookups |-> <<>>, zip_rows |-> <<>>, before |-> PriorFields]

\* A house-number token of an order, with the value of its leading digit run
\* (<<>> when it has none).
Tok(text, base) == [text |-> text, base |-> base]

TokenPool ==
    {Tok("14", <<14>>), Tok("30", <<30>>), Tok("99", <<99>>), Tok("5", <<5>>),
     Tok("14A", <<14>>), Tok("7b", <<7>>), Tok("A14", <<>>), Tok("", <<>>)}

\* A fragment of a numar column: "closed" low-high, "single" (low = high),
\* "open" low-T, or "junk" (no number in it).
Frag(kind, low, high, text) == [kind |-> kind, low |-> low, high |-> high, text |-> text]

FragPool ==
    {Frag("closed", 1, 25, "1-25"), Frag("closed", 2, 14, "2-14A"),
     Frag("closed", 1, 33, "nr. 1-33"), Frag("open", 71, 71, "71-T"),
     Frag("single", 7, 7, "7"), Frag("single", 30, 30, "30B"),
     Frag("junk", 0, 0, "abc")}

\* the most fragments a range expression holds
MaxFrags == 2

\* the separators re.split(r"[;,]+", db_numar) splits on, as the column writes them
SeparatorPool == {"; ", ","}

FragSeqs == UNION {[1..n -> FragPool] : n \in 0..MaxFrags}

RECURSIVE Render(_, _)
\* the text of the numar column that holds the fragments fs
Render(fs, sep) ==
    IF fs = <<>> THEN ""
    ELSE IF Len(fs) = 1 THEN fs[1].text
    ELSE fs[1].text \o sep \o Render(Tail(fs), sep)

NrIdle == [token |-> Tok("", <<>>), frags |-> <<>>, expr |-> "", verdict |-> "unset"]

CwIdle == [canon |-> "", alias |-> "", name |-> "", done |-> FALSE,
           with_alias |-> {}, with_canon |-> {}]

\* sync_in_progress = False, and no request served yet
SyncIdle ==
    /\ sync_in_progress = FALSE
    /\ background_tasks = <<>>
    /\ responses = <<>>

Init ==
    /\ db \in {S \in SUBSET RowPool : Cardinality(S) <= MaxRows}
    /\ \E a1 \in Address1Pool, a2 \in Address2Pool, z \in ZipPool, pc \in LocationPool :
          order = [shipping_address1 |-> a1, shipping_address2 |-> a2, shipping_zip |-> z,
                   shipping_province |-> pc[1], shipping_city |-> pc[2],
                   address_status |-> PriorFields.address_status,
                   address_score |-> PriorFields.address_score,
                   address_validation_errors |-> PriorFields.address_validation_errors]
    /\ last = NoCall
    /\ nr = NrIdle
    /\ cw = CwIdle
    /\ SyncIdle

\* await address_service.validate_address_for_order(db, db_order)
Validate ==
    /\ \E r \in validate_address_for_order(db, order) :
          /\ order' = [order EXCEPT !.address_status = r.address_status,
                                    !.address_score = r.address_score,
                                    !.address_validation_errors = r.address_validation_errors]
          /\ last' = [outcome |-> r.outcome, exc |-> r.exc, lookups |-> r.lookups,
                      zip_rows |-> r.zip_rows, before |-> Written(order)]
    /\ UNCHANGED <<db, nr, cw, syncVars>>

Next == Validate

Spec == Init /\ [][Next]_vars

(***************************************************************************)
(* The house-number check on its own: number_in_range applied to a token   *)
(* and a range expression.                                                 *)
(***************************************************************************)
\* no snapshot and no order under validation
NoOrder ==
    /\ db = {}
    /\ order = [shipping_address1 |-> "", shipping_address2 |-> None, shipping_zip |-> "",
                shipping_province |-> "", shipping_city |-> "",
                address_status |-> PriorFields.address_status,
                address_score |-> PriorFields.address_score,
                address_validation_errors |-> PriorFields.address_validation_errors]
    /\ last = NoCall

InitRange ==
    /\ NoOrder
    /\ \E t \in TokenPool, fs \in FragSeqs, sep \in SeparatorPool :
          nr = [token |-> t, frags |-> fs, expr |-> Render(fs, sep), verdict |-> "unset"]
    /\ cw = CwIdle
    /\ SyncIdle

\* num_ok = number_in_range(parsed.get("number"), db_address.numar)
CheckNumber ==
    /\ nr.verdict = "unset"
    /\ nr' = [nr EXCEPT !.verdict = number_in_range(nr.token.text, nr.expr)]
    /\ UNCHANGED <<db, order, last, cw, syncVars>>

NextRange == CheckNumber

SpecRange == InitRange /\ [][NextRange]_vars

(***************************************************************************)
(* The core words on their own: get_core_words applied to a street phrase  *)
(* written with an alias of a street type and with the type itself.        *)
(***************************************************************************)
\* the names the street phrases are built from
NamePool == {"", "Iorga", "Nicolae Iorga", "Dr. Victor Babe$", "Unirii 5", "Strada Mare"}

InitCore ==
    /\ NoOrder
    /\ nr = NrIdle
    /\ \E canon \in CANONICAL_PREFIXES, name \in NamePool :
          \E alias \in PREFIX_ALIASES[canon] :
             cw = [CwIdle EXCEPT !.canon = canon, !.alias = alias, !.name = name]
    /\ SyncIdle

\* db_core = get_core_words(db_street_full), for the two phrases
CoreWords ==
    /\ ~cw.done
    /\ cw' = [cw EXCEPT !.done = TRUE,
                        !.with_alias = get_core_words(cw.alias \o " " \o cw.name),
                        !.with_canon = get_core_words(cw.canon \o " " \o cw.name)]
    /\ UNCHANGED <<db, order, last, nr, syncVars>>

NextCore == CoreWords

SpecCore == InitCore /\ [][NextCore]_vars

(***************************************************************************)
(* routes/sync.py: the three triggers and the run_sync tasks they add, on  *)
(* one event loop.  A handler runs from its first line to its return       *)
(* without an await; the task it added starts after the response was sent, *)
(* and awaits the synchronization service between setting and resetting    *)
(* the flag, so other handlers and tasks run in between.                   *)
(***************************************************************************)
\* the most trigger requests served
MaxTriggers == 3

InitSync ==
    /\ NoOrder
    /\ nr = NrIdle
    /\ cw = CwIdle
    /\ SyncIdle

\* the body the three handlers share: if sync_in_progress: raise
\* HTTPException(status_code=409); otherwise background_tasks.add_task(run_sync)
\* and return JSONResponse(status_code=202).  A task is "added" (not started),
\* "running" (inside the try), "returned" or "raised".
Trigger(route) ==
    /\ Len(responses) < MaxTriggers
    /\ IF sync_in_progress
       THEN /\ responses' = Append(responses, [route |-> route, status_code |-> 409])
            /\ UNCHANGED <<sync_in_progress, background_tasks>>
       ELSE /\ background_tasks' = Append(background_tasks, [route |-> route, state |-> "added"])
            /\ responses' = Append(responses, [route |-> route, status_code |-> 202])
            /\ UNCHANGED sync_in_progress
    /\ UNCHANGED addressVars

\* POST /sync/orders
trigger_orders_sync == Trigger("orders")
\* POST /sync/couriers
trigger_couriers_sync == Trigger("couriers")
\* POST /sync/full
trigger_full_sync == Trigger("full")

\* run_sync up to its await: sync_in_progress = True, then the call of the
\* synchronization service
run_sync_starts(i) ==
    /\ background_tasks[i].state = "added"
    /\ sync_in_progress' = TRUE
    /\ background_tasks' = [background_tasks EXCEPT ![i].state = "running"]
    /\ UNCHANGED <<responses, addressVars>>

\* the value of sync_in_progress when run_sync is left: the finally clause
\* resets it whether the service returned or raised
FlagAfterRunSync_NoFinally(how, flag) == IF how = "raised" THEN flag ELSE FALSE
FlagAfterRunSync(how, flag) == FALSE

\* run_sync from the await on: the service returns or raises, and the
\* finally clause runs
run_sync_ends(i, how) ==
    /\ background_tasks[i].state = "running"
    /\ sync_in_progress' = FlagAfterRunSync(how, sync_in_progress)
    /\ background_tasks' = [background_tasks EXCEPT ![i].state = how]
    /\ UNCHANGED <<responses, addressVars>>

NextSync ==
    \/ trigger_orders_sync
    \/ trigger_couriers_sync
    \/ trigger_full_sync
    \/ \E i \in DOMAIN background_tasks : run_sync_starts(i)
    \/ \E i \in DOMAIN background_tasks : run_sync_ends(i, "returned")
    \/ \E i \in DOMAIN background_tasks : run_sync_ends(i, "raised")

SpecSync == InitSync /\ [][NextSync]_vars

\* the event loop runs every task that was added, and every call of the
\* synchronization service comes to an end
SpecSyncFair ==
    /\ SpecSync
    /\ \A i \in 1..MaxTriggers :
          /\ WF_vars(i \in DOMAIN background_tasks /\ run_sync_starts(i))
          /\ WF_vars(i \in DOMAIN background_tasks
                       /\ (run_sync_ends(i, "returned") \/ run_sync_ends(i, "raised")))

(***************************************************************************)
(* Properties of validate_address_for_order, stated on the last call.      *)
(***************************************************************************)
Called == last.outcome # "none"
ReturnedCall == last.outcome = "returned"
SomeLookupFailed == \E i \in 1..Len(last.lookups) : ~last.lookups[i].ok
Statuses == {"valid", "partial_match", "invalid", "not_found"}

\* the two address lines as the order carries them, lower-cased
AddressLinesLower ==
    Lower(OrEmpty(order.shipping_address1) \o " " \o OrEmpty(order.shipping_address2))
HasLockerKeyword ==
    LET lines == AddressLinesLower IN \E k \in LOCKER_KEYWORDS : Contains(lines, k)
CountyOrCityEmpty == OrEmpty(order.shipping_province) = "" \/ OrEmpty(order.shipping_city) = ""
StreetPhraseEmpty ==
    LET st == ParsedStreet(order).street IN ~Truthy(st) \/ Strip(st) = ""
NoDigitInLines ==
    /\ FirstDigitPos(OrEmpty(order.shipping_address1), 1) = 0
    /\ FirstDigitPos(OrEmpty(order.shipping_address2), 1) = 0

\* C1: a call whose lookups all succeed returns normally, with a status, a
\* score and a message list written on the order; no business outcome raises.
C1_BusinessOutcomesReturn ==
    (Called /\ ~SomeLookupFailed) =>
        (ReturnedCall /\ order.address_status \in Statuses)

\* C2: whenever the call returns, the status is one of valid, partial_match,
\* invalid, not_found and the score is an integer from 0 to 100.
C2_StatusAndScoreInRange ==
    ReturnedCall =>
        (order.address_status \in Statuses /\ order.address_score \in 0..100)

\* the postal-code strategy returned a partial match with a score strictly
\* between the bounds
C2_Witness ==
    /\ ReturnedCall
    /\ last.lookups = <<Lookup("cod_postal", TRUE)>>
    /\ order.address_status = "partial_match"
    /\ order.address_score \in 1..99

\* C3: when the two address lines, lower-cased, contain a locker keyword, the
\* call returns valid with score 100 and issues no lookup, whatever the county,
\* city, postal code, street and number are.
C3_LockerShortcut ==
    (Called /\ HasLockerKeyword) =>
        /\ ReturnedCall
        /\ order.address_status = "valid"
        /\ order.address_score = 100
        /\ last.lookups = <<>>

\* a locker address in mixed case with an empty county and no postal code, on a
\* snapshot that has rows
C3_Witness ==
    /\ Called /\ HasLockerKeyword
    /\ order.shipping_address1 # Lower(order.shipping_address1)
    /\ order.shipping_province = "" /\ order.shipping_zip = ""
    /\ db # {}

\* C4: for a non-locker input the preconditions are checked in order, before
\* any lookup: empty county or city gives not_found 0; otherwise an empty street
\* phrase gives invalid 0 with the missing-street message; otherwise no digit in
\* either address line gives invalid 0 with the missing-number message.
C4_PreconditionsInOrder ==
    (Called /\ ~HasLockerKeyword) =>
        IF CountyOrCityEmpty
        THEN /\ ReturnedCall /\ last.lookups = <<>>
             /\ order.address_status = "not_found" /\ order.address_score = 0
        ELSE IF StreetPhraseEmpty
        THEN /\ ReturnedCall /\ last.lookups = <<>>
             /\ order.address_status = "invalid" /\ order.address_score = 0
             /\ MSG_NO_STREET \in Range(order.address_validation_errors)
        ELSE IF NoDigitInLines
        THEN /\ ReturnedCall /\ last.lookups = <<>>
             /\ order.address_status = "invalid" /\ order.address_score = 0
             /\ MSG_NO_NUMBER \in Range(order.address_validation_errors)
        ELSE TRUE

\* a street without any digit, with county and city given, on a snapshot that
\* has rows
C4_Witness ==
    /\ Called /\ ~HasLockerKeyword /\ ~CountyOrCityEmpty /\ ~StreetPhraseEmpty
    /\ NoDigitInLines
    /\ db # {}

\* C5: with the snapshot unchanged, a call that returns after an earlier call
\* returned leaves the same status, score and message list as the earlier one.
C5_SecondCallSameResult ==
    (ReturnedCall /\ last.before # PriorFields) => Written(order) = last.before

\* every row of the snapshot is of the order's county and city and has no
\* street name
LocalityWithoutStreets ==
    /\ db # {}
    /\ \A r \in db : /\ r.judet = order.shipping_province
                     /\ r.localitate = order.shipping_city
                     /\ ~Truthy(r.nume_strada)

\* C7: when the locality the county/locality strategy selects has no street
\* name in its rows, an input with a street phrase and a number gets valid 70,
\* and an input with no number gets invalid 10.
C7_NoNomenclatureLocality ==
    (Called /\ ~SomeLookupFailed /\ ~HasLockerKeyword /\ LocalityWithoutStreets
       /\ ~StreetPhraseEmpty) =>
        IF ~NoDigitInLines
        THEN ReturnedCall /\ order.address_status = "valid" /\ order.address_score = 70
        ELSE ReturnedCall /\ order.address_status = "invalid" /\ order.address_score = 10

\* C8: when a lookup of the call fails, the call raises, and the three output
\* fields of the order are what they were before the call.
C8_LookupFailurePropagates ==
    SomeLookupFailed =>
        /\ last.outcome = "raised"
        /\ Written(order) = last.before

\* the county lookup failed after the postal-code lookup returned rows and the
\* strategy fell through
C8_Witness ==
    /\ Len(last.lookups) = 2
    /\ last.lookups[1] = Lookup("cod_postal", TRUE)
    /\ last.lookups[2] = Lookup("judet", FALSE)
    /\ last.zip_rows # <<>>

NoDuplicates(seq) == \A i, j \in 1..Len(seq) : seq[i] = seq[j] => i = j

ZipRowJaccard(i) ==
    Jaccard(get_core_words(OrEmpty(ParsedStreet(order).street)),
            get_core_words(StreetFull(last.zip_rows[i])))
ZipRowScore(i) ==
    LET street == OrEmpty(ParsedStreet(order).street)
    IN  RatAdd(Jaccard(get_core_words(street), get_core_words(StreetFull(last.zip_rows[i]))),
               RatMul(<<15, 100>>, seq_similarity(street, StreetFull(last.zip_rows[i]))))
\* the first row among those of the highest score
ZipWinner ==
    CHOOSE i \in 1..Len(last.zip_rows) :
        /\ \A j \in 1..Len(last.zip_rows) : ~RatGt(ZipRowScore(j), ZipRowScore(i))
        /\ \A j \in 1..(i - 1) : RatGt(ZipRowScore(i), ZipRowScore(j))
OrderZip == normalize_zip(Strip(OrEmpty(order.shipping_zip)))
RowsWithOrderZip == {r \in db : r.cod_postal \in {OrderZip, LStripZeros(OrderZip)}}
\* the messages a result produced from row w carries
ProducedFromRow(w) ==
    /\ MsgZipSuggestion(w.cod_postal) \in Range(order.address_validation_errors)
    /\ LET number == ParsedStreet(order).number
       IN  (number_in_range(number, w.numar) = "False")
             <=> (MsgOutOfRange(number, w.numar) \in Range(order.address_validation_errors))

\* C10: with a postal code on an order that passed the preconditions, the call
\* first looks up the rows of that code (or of its zero-stripped form); the
\* winner is the first row of the highest jaccard + 0.15 * similarity; when its
\* Jaccard ratio is at least 1/2 the result is produced from it and no other
\* lookup is issued; otherwise, or without rows, the county lookup follows.
C10_PostalCodeFirst ==
    (Called /\ ~HasLockerKeyword /\ ~CountyOrCityEmpty /\ ~StreetPhraseEmpty
       /\ ParsedStreet(order).has_number /\ OrderZip # "") =>
        /\ last.lookups # <<>>
        /\ last.lookups[1].kind = "cod_postal"
        /\ last.lookups[1].ok =>
             /\ Range(last.zip_rows) = RowsWithOrderZip
             /\ LET w == ZipWinner
                IN  IF last.zip_rows # <<>> /\ RatGeq(ZipRowJaccard(w), <<1, 2>>)
                    THEN /\ ReturnedCall
                         /\ last.lookups = <<Lookup("cod_postal", TRUE)>>
                         /\ ProducedFromRow(last.zip_rows[w])
                    ELSE /\ Len(last.lookups) >= 2
                         /\ last.lookups[2].kind = "judet"

\* two rows of the order's postal code tie for the highest score, and the
\* winner is accepted
C10_Witness ==
    /\ ReturnedCall
    /\ Len(last.zip_rows) >= 2
    /\ RatGeq(ZipRowJaccard(ZipWinner), <<1, 2>>)
    /\ \E j \in 1..Len(last.zip_rows) :
          /\ j # ZipWinner
          /\ ~RatGt(ZipRowScore(ZipWinner), ZipRowScore(j))

\* a fall-through: the postal-code lookup returned rows whose winner has a
\* Jaccard ratio under 1/2
ZipFellThrough ==
    /\ Called /\ last.zip_rows # <<>>
    /\ RatLt(ZipRowJaccard(ZipWinner), <<1, 2>>)

(***************************************************************************)
(* Properties of number_in_range.                                          *)
(***************************************************************************)
Covers(f, b) ==
    \/ f.kind \in {"closed", "single"} /\ f.low <= b /\ b <= f.high
    \/ f.kind = "open" /\ b >= f.low

\* the verdict on token t and fragments fs: indeterminate without a base or
\* without a fragment that is a range, contained when some range covers the base
ExpectedVerdict(t, fs) ==
    IF t.base = <<>> \/ ~(\E i \in 1..Len(fs) : fs[i].kind # "junk") THEN None
    ELSE IF \E i \in 1..Len(fs) : Covers(fs[i], t.base[1]) THEN "True"
    ELSE "False"

\* C6: number_in_range is indeterminate when the token has no leading digit
\* run or no fragment of the expression parses to a range; otherwise contained
\* iff some closed, single or open fragment covers the token's base, letter
\* suffixes ignored; otherwise not contained.
C6_ThreeValuedVerdict ==
    nr.verdict # "unset" => nr.verdict = ExpectedVerdict(nr.token, nr.frags)

(***************************************************************************)
(* Properties of the decision on the winning candidate.                    *)
(***************************************************************************)
\* the postal-code strategy accepted its winner and wrote the result
ZipAccepted ==
    /\ ReturnedCall
    /\ last.lookups = <<Lookup("cod_postal", TRUE)>>
    /\ last.zip_rows # <<>>

\* the sequence similarity between the input street phrase and the street
\* phrase of row i of the postal-code lookup
ZipRowSimilarity(i) ==
    seq_similarity(OrEmpty(ParsedStreet(order).street), StreetFull(last.zip_rows[i]))

\* the status the decision rule gives for Jaccard ratio J, similarity S and
\* containment verdict
DecidedStatus(J, S, has_number, verdict) ==
    IF (RatGeq(J, <<6, 10>>) \/ (RatGeq(S, <<7, 10>>) /\ has_number)) /\ verdict # "False"
    THEN "valid" ELSE "partial_match"

\* C11: the status of a result produced from an accepted winner is valid iff
\* (J >= 0.6 or (S >= 0.7 and the input has a house number)) and the house
\* number is not outside the winner's ranges, J and S being those of the
\* winner; otherwise it is partial_match.
C11_StatusFromWinner ==
    ZipAccepted =>
        LET w == ZipWinner
            parsed == ParsedStreet(order)
        IN  order.address_status =
                DecidedStatus(ZipRowJaccard(w), ZipRowSimilarity(w), parsed.has_number,
                              number_in_range(parsed.number, last.zip_rows[w].numar))

(* Properties of the score. *)
\* the score the rule gives for Jaccard ratio J and a containment verdict
ExpectedScore(J, verdict) ==
    IF verdict = "True" THEN Min(100, RoundTimes100(J) + 20)
    ELSE IF verdict = "False" THEN Max(0, RoundTimes100(J) - 30)
    ELSE RoundTimes100(J)

\* the score of the result is the one the rule gives for row w, and the
\* out-of-range diagnostic naming the range of w is there exactly when the
\* house number is outside it
ScoredFromRow(w) ==
    LET number == ParsedStreet(order).number
        verdict == number_in_range(number, w.numar)
    IN  /\ order.address_score =
              ExpectedScore(Jaccard(get_core_words(OrEmpty(ParsedStreet(order).street)),
                                    get_core_words(StreetFull(w))), verdict)
        /\ (verdict = "False")
             <=> (MsgOutOfRange(number, w.numar) \in Range(order.address_validation_errors))

\* the rows of the order's county and locality that name a street
StreetsOfOrderLocality ==
    {r \in db : /\ r.judet = order.shipping_province
                /\ r.localitate = order.shipping_city
                /\ Truthy(r.nume_strada)}

\* the call passed the locker check and the preconditions, no lookup failed,
\* the postal-code strategy produced no result, and the order's locality has
\* streets in the snapshot
StreetStrategyDue ==
    /\ Called /\ ~SomeLookupFailed /\ ~HasLockerKeyword /\ ~CountyOrCityEmpty
    /\ ~StreetPhraseEmpty /\ ParsedStreet(order).has_number
    /\ ~ZipAccepted
    /\ StreetsOfOrderLocality # {}

\* C12: the score of a result produced from a winner is round(J * 100), plus
\* 20 capped at 100 when the house number is inside the winner's ranges,
\* minus 30 floored at 0 (with a diagnostic naming the range) when it is
\* outside, unchanged when the verdict is indeterminate, in the postal-code
\* strategy and in the county/locality/street strategy, with or without a
\* postal code on the order.
C12_ScoreFromWinner ==
    /\ ZipAccepted => ScoredFromRow(last.zip_rows[ZipWinner])
    /\ StreetStrategyDue =>
          /\ ReturnedCall
          /\ \E w \in StreetsOfOrderLocality : ScoredFromRow(w)

(* Properties of the street step of the county/locality/street strategy. *)
\* jaccard + 0.15 * similarity of the input street phrase against row r
RowScore(r) ==
    LET street == OrEmpty(ParsedStreet(order).street)
    IN  RatAdd(Jaccard(get_core_words(street), get_core_words(StreetFull(r))),
               RatMul(<<15, 100>>, seq_similarity(street, StreetFull(r))))
RowJaccard(r) ==
    Jaccard(get_core_words(OrEmpty(ParsedStreet(order).street)), get_core_words(StreetFull(r)))
\* the streets of the order's locality no other street of it outscores
BestStreets == {w \in StreetsOfOrderLocality :
                   \A r \in StreetsOfOrderLocality : ~RatGt(RowScore(r), RowScore(w))}

\* C13: in the street step of the county/locality/street strategy the street
\* of the highest jaccard + 0.15 * similarity is selected; when its Jaccard
\* ratio is under 1/2 the result is not_found with the street-not-found
\* message, and only otherwise valid or partial_match.
C13_WeakStreetNotFound ==
    StreetStrategyDue =>
        /\ ReturnedCall
        /\ \E w \in BestStreets :
              IF RatLt(RowJaccard(w), <<1, 2>>)
              THEN /\ order.address_status = "not_found"
                   /\ MsgStreetNotMatched(ParsedStreet(order).street, order.shipping_city)
                         \in Range(order.address_validation_errors)
              ELSE order.address_status \in {"valid", "partial_match"}

(* Properties of the county and locality steps. *)
\* the call passed the locker check and the preconditions, no lookup failed,
\* and the postal-code strategy produced no result
CountyStrategyDue ==
    /\ Called /\ ~SomeLookupFailed /\ ~HasLockerKeyword /\ ~CountyOrCityEmpty
    /\ ~StreetPhraseEmpty /\ ParsedStreet(order).has_number
    /\ ~ZipAccepted

\* the rows of the order's county, under its normalized or else its raw name
RowsOfOrderCounty ==
    IF stmt_city(db, normalize(OrEmpty(order.shipping_province))) # {}
    THEN stmt_city(db, normalize(OrEmpty(order.shipping_province)))
    ELSE stmt_city(db, OrEmpty(order.shipping_province))

\* no locality of the order's county is similar enough to the order's city
NoSimilarLocality ==
    \A r \in RowsOfOrderCounty :
        RatLt(seq_similarity(NormCity(OrEmpty(order.shipping_city)), normalize(r.localitate)),
              <<1, 2>>)

NotFoundWith(msg) ==
    /\ ReturnedCall
    /\ order.address_status = "not_found"
    /\ order.address_score = 0
    /\ order.address_validation_errors = <<msg>>

\* C14: when the snapshot has no row of the order's county, the result is
\* not_found, 0 with the county-not-found message; otherwise, when the most
\* similar locality of the county has a similarity under 1/2 to the
\* normalized city, the result is not_found, 0 with the locality-not-found
\* message.
C14_CountyThenLocality ==
    CountyStrategyDue =>
        IF RowsOfOrderCounty = {}
        THEN NotFoundWith(MsgCountyNotFound(OrEmpty(order.shipping_province)))
        ELSE NoSimilarLocality =>
                NotFoundWith(MsgCityNotFound(OrEmpty(order.shipping_city),
                                             OrEmpty(order.shipping_province)))

(* Properties of the suggestions. *)
\* the suggestions of the result are the ones the rule gives for winner w: a
\* street suggestion exactly when the core words differ, a postal-code
\* suggestion exactly when the order has a postal code and w has another
SuggestionsFromRow(w) ==
    LET errors == Range(order.address_validation_errors)
    IN  /\ (MsgStreetSuggestion(StreetFull(w)) \in errors)
             <=> (get_core_words(OrEmpty(ParsedStreet(order).street))
                    # get_core_words(StreetFull(w)))
        /\ (MsgZipSuggestion(OrEmpty(w.cod_postal)) \in errors)
             <=> (OrderZip # "" /\ OrEmpty(w.cod_postal) # OrderZip)

\* C15: a result produced from a winner carries a street suggestion iff the
\* core words of the input differ from the winner's, and a postal-code
\* suggestion iff the order had a postal code and the winner's postal code
\* differs from the order's normalized one, in both strategies.
C15_SuggestionsWhenDifferent ==
    /\ ZipAccepted => SuggestionsFromRow(last.zip_rows[ZipWinner])
    /\ StreetStrategyDue =>
          /\ ReturnedCall
          /\ \E w \in BestStreets : SuggestionsFromRow(w)

(***************************************************************************)
(* Properties of get_core_words.                                           *)
(***************************************************************************)
\* C16: for every street type, every alias of it and every name, the core
\* words of "alias name" are those of "type name".
C16_AliasesCanonicalized ==
    cw.done => cw.with_alias = cw.with_canon

(***************************************************************************)
(* Properties of the sync triggers.                                        *)
(***************************************************************************)
RunningTasks == {i \in DOMAIN background_tasks : background_tasks[i].state = "running"}

\* C17: under every interleaving of the three triggers and their tasks, at
\* most one sync job runs at any time.
C17_AtMostOneSyncRuns == Cardinality(RunningTasks) <= 1

\* a trigger was served in this step, with this status code
Served(status_code) ==
    /\ Len(responses') = Len(responses) + 1
    /\ responses'[Len(responses')].status_code = status_code

\* C18: a task that starts sets sync_in_progress, and resets it when it ends,
\* whether the service returned or raised; while the flag is set a trigger
\* is answered 409 and adds no task, while it is clear a trigger is answered
\* 202 and adds one; and a set flag is always cleared again.
C18_FlagResetAndRejects ==
    /\ [][/\ \A i \in DOMAIN background_tasks :
               /\ ((background_tasks[i].state = "added"
                      /\ background_tasks'[i].state = "running") => sync_in_progress')
               /\ ((background_tasks[i].state = "running"
                      /\ background_tasks'[i].state \in {"returned", "raised"})
                     => ~sync_in_progress')
           /\ ((sync_in_progress /\ responses' # responses) =>
                  (Served(409) /\ background_tasks' = background_tasks))
           /\ ((~sync_in_progress /\ responses' # responses) =>
                  (Served(202) /\ Len(background_tasks') = Len(background_tasks) + 1))]_vars
    /\ (sync_in_progress ~> ~sync_in_progress)

\* a trigger was rejected while a task ran, the task ended with an exception,
\* the flag is clear, and a later trigger was accepted
C18_Witness ==
    /\ ~sync_in_progress
    /\ \E i \in DOMAIN background_tasks : background_tasks[i].state = "raised"
    /\ \E j, k \in DOMAIN responses :
          /\ j < k
          /\ responses[j].status_code = 409
          /\ responses[k].status_code = 202

====
